---- MODULE Spec2Model ----
(***************************************************************************)
(* Webhook order router: main.handler and the strategy translators of      *)
(* trading_strategies.py.  One request is processed at a time; the steps   *)
(* of handler are split at the calls whose outcome the environment         *)
(* decides (request.get_json, initialize_alpaca_client, submit_order).     *)
(*                                                                         *)
(* Strings that the code formats character by character (the OCC option    *)
(* symbol) are sequences of one-character strings.  A strike is a number   *)
(* of 1/StrikeUnits dollars, so that int(strike * 1000) truncates.         *)
(***************************************************************************)
EXTENDS Integers, Sequences, FiniteSets, TLC

\* ---------------------------------------------------------------- bounds
MaxStrikeIdx == 3
MaxQty == 2

\* ------------------------------------------------------------- constants
\* None: the value of os.environ.get / dict.get for a missing key
NoVal == "<None>"

\* int(strike * 1000)
StrikeScale == 1000
\* {...:08d}
StrikeWidth == 8
\* {...:<6}
RootWidth == 6

\* strikes are multiples of half a thousandth of a dollar
StrikeUnits == 2 * StrikeScale
StrikeBase == 100 * StrikeUnits
Strikes == {StrikeBase + i : i \in 0..MaxStrikeIdx}
Quantities == 1..MaxQty

\* ------------------------------------------------------ string helpers
LowerChars == <<"a","b","c","d","e","f","g","h","i","j","k","l","m",
                "n","o","p","q","r","s","t","u","v","w","x","y","z">>
UpperChars == <<"A","B","C","D","E","F","G","H","I","J","K","L","M",
                "N","O","P","Q","R","S","T","U","V","W","X","Y","Z">>
DigitChars == <<"0","1","2","3","4","5","6","7","8","9">>

\* str.upper() on one character
UpperChar(c) ==
    IF \E i \in 1..Len(LowerChars) : LowerChars[i] = c
    THEN UpperChars[CHOOSE i \in 1..Len(LowerChars) : LowerChars[i] = c]
    ELSE c

\* str.upper()
Upper(s) == [i \in 1..Len(s) |-> UpperChar(s[i])]

\* str.replace(ch, '')
RECURSIVE Remove(_, _)
Remove(s, ch) ==
    IF s = <<>> THEN <<>>
    ELSE IF Head(s) = ch THEN Remove(Tail(s), ch)
    ELSE <<Head(s)>> \o Remove(Tail(s), ch)

\* s[n:]
DropFirst(s, n) == IF Len(s) <= n THEN <<>> ELSE SubSeq(s, n + 1, Len(s))

\* decimal digits of a natural number, most significant first
RECURSIVE NatToDigits(_)
NatToDigits(n) ==
    IF n < 10 THEN <<DigitChars[n + 1]>>
    ELSE NatToDigits(n \div 10) \o <<DigitChars[(n % 10) + 1]>>

\* f"{n:0{w}d}" for n >= 0: zero-padded on the left to at least w characters
RECURSIVE ZeroPad(_, _)
ZeroPad(ds, w) == IF Len(ds) >= w THEN ds ELSE ZeroPad(<<"0">> \o ds, w)

\* f"{s:<{w}}": space-padded on the right to at least w characters
RECURSIVE LeftJustify(_, _)
LeftJustify(s, w) == IF Len(s) >= w THEN s ELSE LeftJustify(s \o <<" ">>, w)

\* int(strike * 1000) for a non-negative strike given in 1/StrikeUnits dollars
StrikeMillis(strike) == (strike * StrikeScale) \div StrikeUnits

\* _get_option_symbol; underlying_symbol and expiration_date are str
_get_option_symbol(underlying_symbol, expiration_date, option_type, strike) ==
    LET yy_mm_dd == DropFirst(Remove(expiration_date, "-"), 2)
        option_type_char == Upper(option_type)[1]
        strike_formatted == ZeroPad(NatToDigits(StrikeMillis(strike)), StrikeWidth)
    IN  LeftJustify(Upper(underlying_symbol), RootWidth)
          \o yy_mm_dd \o <<option_type_char>> \o strike_formatted


\* ------------------------------------------------------------- inputs
\* a JSON string value / a JSON value that is not a string (e.g. a number)
Str(chars) == [type |-> "str", val |-> chars]
NonStr == [type |-> "int", val |-> <<>>]

Underlyings == {Str(<<"s","p","y">>), NonStr}
Expirations == {<<"2","0","2","5","-","0","7","-","2","5">>}

VerticalKeys == {"underlying_symbol", "expiration_date", "long_strike",
                 "short_strike", "quantity"}
CondorKeys == {"underlying_symbol", "expiration_date", "long_put_strike",
               "short_put_strike", "short_call_strike", "long_call_strike",
               "quantity"}

\* the "params" objects a payload can carry for a vertical spread
VerticalParams ==
    {[k \in VerticalKeys |->
        CASE k = "underlying_symbol" -> u
          [] k = "expiration_date" -> e
          [] k = "long_strike" -> ls
          [] k = "short_strike" -> ss
          [] OTHER -> q] :
     u \in Underlyings, e \in Expirations, ls \in Strikes, ss \in Strikes,
     q \in Quantities}

\* the "params" objects a payload can carry for an iron condor
CondorParams ==
    {[k \in CondorKeys |->
        CASE k = "underlying_symbol" -> u
          [] k = "expiration_date" -> e
          [] k = "long_put_strike" -> lp
          [] k = "short_put_strike" -> sp
          [] k = "short_call_strike" -> sc
          [] k = "long_call_strike" -> lc
          [] OTHER -> q] :
     u \in Underlyings, e \in Expirations, lp \in Strikes, sp \in Strikes,
     sc \in Strikes, lc \in Strikes, q \in Quantities}

\* a params object with a required key missing, and one with an unknown key
MissingKeyParams == [k \in {"long_strike", "quantity"} |-> 1]
ExtraKeyParams == [k \in VerticalKeys \cup {"client"} |-> 1]

\* {} : the default of data.get('params', {})
EmptyParams == [k \in {} |-> 0]

StrategyNames == {"bull_call_spread", "bear_call_spread", "iron_condor",
                  "straddle", NoVal}
SecretValues == {"s3cret", "wrong", NoVal}
EnvSecrets == {"s3cret", "", NoVal}
EnvKeys == {"key", NoVal}

\* what request.get_json() can give: an exception, a JSON value that is not
\* an object (None, a list), or an object
Payload(sk, st, pk, p) ==
    [kind |-> "object", secret_key |-> sk, strategy |-> st,
     params_kind |-> pk, params |-> p]
NoData == [kind |-> "none", secret_key |-> NoVal, strategy |-> NoVal,
           params_kind |-> "mapping", params |-> EmptyParams]
NonObject == [NoData EXCEPT !.kind = "nonobject"]

NoResponse == [status |-> 0, body |-> ""]
NoOrder == [symbol |-> NonStr, qty |-> 0, side |-> "", type |-> "",
            time_in_force |-> "", order_class |-> "", limit_price |-> 0,
            legs |-> <<>>]

\* ---------------------------------------------------------------- state
VARIABLES
    env,          \* os.environ of the process
    method,       \* request.method
    pc,           \* position in handler
    data,         \* handler's data (request.get_json())
    inits,        \* calls of initialize_alpaca_client during this request
    client,       \* handler's client, NoVal until the call returned one
    callee,       \* the translator handler called
    order_data,   \* the OptionOrderRequest the translator built
    submitted,    \* order_data of every client.submit_order call of this request
    completed,    \* submit_order calls of this request that returned
    exc,          \* class of the exception in flight
    raised_by,    \* where the exception in flight was raised
    response      \* what the request was answered with

vars == <<env, method, pc, data, inits, client, callee, order_data, submitted,
          completed, exc, raised_by, response>>

Methods == {"POST", "GET"}

Fresh(m) ==
    /\ method' = m
    /\ pc' = "method"
    /\ data' = NoData
    /\ inits' = 0
    /\ client' = NoVal
    /\ callee' = NoVal
    /\ order_data' = NoOrder
    /\ submitted' = <<>>
    /\ completed' = 0
    /\ exc' = NoVal
    /\ raised_by' = NoVal
    /\ response' = NoResponse

Init ==
    /\ env \in [WEBHOOK_SECRET_KEY : EnvSecrets, ALPACA_API_KEY : EnvKeys,
                ALPACA_SECRET_KEY : EnvKeys]
    /\ method \in Methods
    /\ pc = "method"
    /\ data = NoData
    /\ inits = 0
    /\ client = NoVal
    /\ callee = NoVal
    /\ order_data = NoOrder
    /\ submitted = <<>>
    /\ completed = 0
    /\ exc = NoVal
    /\ raised_by = NoVal
    /\ response = NoResponse

\* the request ends with this response (abort(n) or a returned tuple)
Respond(status, body) ==
    /\ response' = [status |-> status, body |-> body]
    /\ pc' = "done"

\* Python truthiness of an environment value
Truthy(v) == v # NoVal /\ v # ""


\* an exception leaves the translator (or submit_order) for handler's except
Raise(cls, where) ==
    /\ exc' = cls
    /\ raised_by' = where
    /\ pc' = "except"

\* ------------------------------------------------------- translators
\* f(client=client, **params) binds: params is a mapping, has every required
\* keyword, and no keyword the function does not take
Binds(p_kind, p, required) ==
    /\ p_kind = "mapping"
    /\ required \subseteq DOMAIN p
    /\ DOMAIN p \subseteq required \cup {"time_in_force"}

\* the time_in_force argument (default TimeInForce.DAY)
TimeInForceOf(p) ==
    IF "time_in_force" \in DOMAIN p THEN p["time_in_force"] ELSE "day"

\* mutant of BullStrikesOk: the comparison is not strict
BullStrikesOk_NonStrict(long_strike, short_strike) == long_strike <= short_strike

\* trade_bull_call_spread: if not long_strike < short_strike: raise ValueError
BullStrikesOk(long_strike, short_strike) == long_strike < short_strike

\* trade_bear_call_spread: if not short_strike < long_strike: raise ValueError
BearStrikesOk(short_strike, long_strike) == short_strike < long_strike

\* trade_iron_condor: if not (lp < sp < sc < lc): raise ValueError
CondorStrikesOk(long_put_strike, short_put_strike, short_call_strike, long_call_strike) ==
    /\ long_put_strike < short_put_strike
    /\ short_put_strike < short_call_strike
    /\ short_call_strike < long_call_strike

\* a leg of a vertical spread: OptionOrderRequest(symbol, qty, side, type, time_in_force)
Leg(symbol, qty, side, tif) ==
    [symbol |-> symbol, qty |-> qty, side |-> side, type |-> "limit",
     time_in_force |-> tif]

\* a leg of the iron condor: OptionOrderRequest(symbol, qty, side)
BareLeg(symbol, qty, side) == [symbol |-> symbol, qty |-> qty, side |-> side]

\* order_data of trade_bull_call_spread (limit_price in cents)
BullCallSpreadOrder(underlying_symbol, expiration_date, long_strike, short_strike, quantity, tif) ==
    LET long_call_symbol ==
            _get_option_symbol(underlying_symbol.val, expiration_date, <<"C">>, long_strike)
        short_call_symbol ==
            _get_option_symbol(underlying_symbol.val, expiration_date, <<"C">>, short_strike)
    IN  [symbol |-> underlying_symbol, qty |-> quantity, side |-> "buy",
         type |-> "limit", time_in_force |-> tif, order_class |-> "mleg",
         limit_price |-> 50,
         legs |-> << Leg(long_call_symbol, quantity, "buy", tif),
                     Leg(short_call_symbol, quantity, "sell", tif) >>]

\* order_data of trade_bear_call_spread
BearCallSpreadOrder(underlying_symbol, expiration_date, short_strike, long_strike, quantity, tif) ==
    LET short_call_symbol ==
            _get_option_symbol(underlying_symbol.val, expiration_date, <<"C">>, short_strike)
        long_call_symbol ==
            _get_option_symbol(underlying_symbol.val, expiration_date, <<"C">>, long_strike)
    IN  [symbol |-> underlying_symbol, qty |-> quantity, side |-> "sell",
         type |-> "limit", time_in_force |-> tif, order_class |-> "mleg",
         limit_price |-> 25,
         legs |-> << Leg(short_call_symbol, quantity, "sell", tif),
                     Leg(long_call_symbol, quantity, "buy", tif) >>]

\* order_data of trade_iron_condor
IronCondorOrder(underlying_symbol, expiration_date, long_put_strike, short_put_strike, short_call_strike, long_call_strike, quantity, tif) ==
    LET long_put_symbol ==
            _get_option_symbol(underlying_symbol.val, expiration_date, <<"P">>, long_put_strike)
        short_put_symbol ==
            _get_option_symbol(underlying_symbol.val, expiration_date, <<"P">>, short_put_strike)
        short_call_symbol ==
            _get_option_symbol(underlying_symbol.val, expiration_date, <<"C">>, short_call_strike)
        long_call_symbol ==
            _get_option_symbol(underlying_symbol.val, expiration_date, <<"C">>, long_call_strike)
    IN  [symbol |-> underlying_symbol, qty |-> quantity, side |-> "sell",
         type |-> "limit", time_in_force |-> tif, order_class |-> "mleg",
         limit_price |-> 75,
         legs |-> << BareLeg(long_put_symbol, quantity, "buy"),
                     BareLeg(short_put_symbol, quantity, "sell"),
                     BareLeg(short_call_symbol, quantity, "sell"),
                     BareLeg(long_call_symbol, quantity, "buy") >>]

\* trade_bull_call_spread up to its submit_order call
trade_bull_call_spread ==
    /\ pc = "bull_call_spread"
    /\ LET p == data.params IN
       IF ~Binds(data.params_kind, p, VerticalKeys)
       THEN Raise("TypeError", "call") /\ UNCHANGED order_data
       ELSE IF ~BullStrikesOk(p["long_strike"], p["short_strike"])
       THEN Raise("ValueError", "trade_bull_call_spread") /\ UNCHANGED order_data
       ELSE IF p["underlying_symbol"].type # "str"
       THEN Raise("AttributeError", "_get_option_symbol") /\ UNCHANGED order_data
       ELSE /\ order_data' = BullCallSpreadOrder(p["underlying_symbol"],
                                 p["expiration_date"], p["long_strike"],
                                 p["short_strike"], p["quantity"], TimeInForceOf(p))
            /\ pc' = "submit"
            /\ UNCHANGED <<exc, raised_by>>
    /\ UNCHANGED <<env, method, data, inits, client, callee, submitted, completed, response>>

\* trade_bear_call_spread up to its submit_order call
trade_bear_call_spread ==
    /\ pc = "bear_call_spread"
    /\ LET p == data.params IN
       IF ~Binds(data.params_kind, p, VerticalKeys)
       THEN Raise("TypeError", "call") /\ UNCHANGED order_data
       ELSE IF ~BearStrikesOk(p["short_strike"], p["long_strike"])
       THEN Raise("ValueError", "trade_bear_call_spread") /\ UNCHANGED order_data
       ELSE IF p["underlying_symbol"].type # "str"
       THEN Raise("AttributeError", "_get_option_symbol") /\ UNCHANGED order_data
       ELSE /\ order_data' = BearCallSpreadOrder(p["underlying_symbol"],
                                 p["expiration_date"], p["short_strike"],
                                 p["long_strike"], p["quantity"], TimeInForceOf(p))
            /\ pc' = "submit"
            /\ UNCHANGED <<exc, raised_by>>
    /\ UNCHANGED <<env, method, data, inits, client, callee, submitted, completed, response>>

\* trade_iron_condor up to its submit_order call
trade_iron_condor ==
    /\ pc = "iron_condor"
    /\ LET p == data.params IN
       IF ~Binds(data.params_kind, p, CondorKeys)
       THEN Raise("TypeError", "call") /\ UNCHANGED order_data
       ELSE IF ~CondorStrikesOk(p["long_put_strike"], p["short_put_strike"],
                                p["short_call_strike"], p["long_call_strike"])
       THEN Raise("ValueError", "trade_iron_condor") /\ UNCHANGED order_data
       ELSE IF p["underlying_symbol"].type # "str"
       THEN Raise("AttributeError", "_get_option_symbol") /\ UNCHANGED order_data
       ELSE /\ order_data' = IronCondorOrder(p["underlying_symbol"],
                                 p["expiration_date"], p["long_put_strike"],
                                 p["short_put_strike"], p["short_call_strike"],
                                 p["long_call_strike"], p["quantity"], TimeInForceOf(p))
            /\ pc' = "submit"
            /\ UNCHANGED <<exc, raised_by>>
    /\ UNCHANGED <<env, method, data, inits, client, callee, submitted, completed, response>>

\* what client.submit_order can do: return the order, raise APIError, or raise
\* another exception (a ValueError such as a JSON decoding error, a TypeError,
\* or one that is neither, such as a connection error)
SubmitOutcomes == {"ok", "APIError", "ValueError", "TypeError", "ConnectionError"}

\* mutant of SubmitOrder: the except clause does not re-raise
SubmitOrder_Swallowed(fn) ==
    /\ pc = "submit"
    /\ callee = fn
    /\ submitted' = Append(submitted, order_data)
    /\ \E outcome \in SubmitOutcomes :
          /\ completed' = IF outcome = "ok" THEN completed + 1 ELSE completed
          /\ pc' = "return"
          /\ UNCHANGED <<exc, raised_by>>
    /\ UNCHANGED <<env, method, data, inits, client, callee, order_data, response>>

\* try: order = client.submit_order(order_data=order_data) ... except APIError: raise
SubmitOrder(fn) ==
    /\ pc = "submit"
    /\ callee = fn
    /\ submitted' = Append(submitted, order_data)
    /\ \E outcome \in SubmitOutcomes :
          IF outcome = "ok"
          THEN /\ completed' = completed + 1
               /\ pc' = "return"
               /\ UNCHANGED <<exc, raised_by>>
          ELSE /\ Raise(outcome, "submit_order")
               /\ UNCHANGED completed
    /\ UNCHANGED <<env, method, data, inits, client, callee, order_data, response>>

bull_call_spread_submit == SubmitOrder("bull_call_spread")
bear_call_spread_submit == SubmitOrder("bear_call_spread")
iron_condor_submit == SubmitOrder("iron_condor")


\* ------------------------------------------------------------ handler
\* if request.method != 'POST': return abort(405)
CheckMethod ==
    /\ pc = "method"
    /\ IF method # "POST"
       THEN Respond(405, "abort")
       ELSE pc' = "get_json" /\ UNCHANGED response
    /\ UNCHANGED <<env, method, data, inits, client, callee, order_data, submitted,
                   completed, exc, raised_by>>

\* the request went on with this value of request.get_json()
Parsed(d) ==
    /\ data' = d
    /\ pc' = "auth"
    /\ UNCHANGED response

\* try: data = request.get_json()  except Exception: return abort(400)
GetJson ==
    /\ pc = "get_json"
    /\ \/ Respond(400, "abort") /\ UNCHANGED data
       \/ Parsed(NonObject)
       \/ \E sk \in SecretValues, st \in StrategyNames :
            \/ \E p \in VerticalParams : Parsed(Payload(sk, st, "mapping", p))
            \/ \E p \in CondorParams : Parsed(Payload(sk, st, "mapping", p))
            \/ Parsed(Payload(sk, st, "mapping", MissingKeyParams))
            \/ Parsed(Payload(sk, st, "mapping", ExtraKeyParams))
            \/ Parsed(Payload(sk, st, "mapping", EmptyParams))
            \/ Parsed(Payload(sk, st, "other", EmptyParams))
    /\ UNCHANGED <<env, method, inits, client, callee, order_data, submitted,
                   completed, exc, raised_by>>

\* mutant of SecretOk: the payload's secret_key is not compared
SecretOk_KeyNotCompared(expected_secret, d) == Truthy(expected_secret)

\* the secret check accepts the request
SecretOk(expected_secret, d) ==
    /\ Truthy(expected_secret)
    /\ d.secret_key = expected_secret

\* expected_secret = os.environ.get('WEBHOOK_SECRET_KEY')
\* if not expected_secret or data.get('secret_key') != expected_secret: abort(403)
\* data.get on a value that is not a dict raises AttributeError, which handler
\* does not catch: the framework answers 500
Authenticate ==
    /\ pc = "auth"
    /\ LET expected_secret == env.WEBHOOK_SECRET_KEY IN
       IF ~Truthy(expected_secret)
       THEN Respond(403, "abort") /\ UNCHANGED <<exc, raised_by>>
       ELSE IF data.kind # "object"
       THEN /\ Respond(500, "unhandled")
            /\ exc' = "AttributeError"
            /\ raised_by' = "handler"
       ELSE IF ~SecretOk(expected_secret, data)
       THEN Respond(403, "abort") /\ UNCHANGED <<exc, raised_by>>
       ELSE pc' = "credentials" /\ UNCHANGED <<response, exc, raised_by>>
    /\ UNCHANGED <<env, method, data, inits, client, callee, order_data, submitted,
                   completed>>

\* if not all([api_key, secret_key]): return abort(500)
CheckCredentials ==
    /\ pc = "credentials"
    /\ IF Truthy(env.ALPACA_API_KEY) /\ Truthy(env.ALPACA_SECRET_KEY)
       THEN pc' = "init_client" /\ UNCHANGED response
       ELSE Respond(500, "abort")
    /\ UNCHANGED <<env, method, data, inits, client, callee, order_data, submitted,
                   completed, exc, raised_by>>

\* try: client = initialize_alpaca_client(...)  except Exception: return abort(500)
InitializeClient ==
    /\ pc = "init_client"
    /\ inits' = inits + 1
    /\ \/ client' = "REST" /\ pc' = "route" /\ UNCHANGED response
       \/ Respond(500, "abort") /\ UNCHANGED client
    /\ UNCHANGED <<env, method, data, callee, order_data, submitted,
                   completed, exc, raised_by>>

\* mutant of TranslatorFor: the last elif is an else
TranslatorFor_ElseCondor(strategy_name) ==
    IF strategy_name \in {"bull_call_spread", "bear_call_spread"}
    THEN strategy_name
    ELSE "iron_condor"

\* the translator handler calls for a strategy name, NoVal for none
TranslatorFor(strategy_name) ==
    IF strategy_name \in {"bull_call_spread", "bear_call_spread", "iron_condor"}
    THEN strategy_name
    ELSE NoVal

\* strategy_name = data.get('strategy'); the if/elif chain of the try block
Route ==
    /\ pc = "route"
    /\ LET fn == TranslatorFor(data.strategy) IN
       IF fn # NoVal
       THEN /\ callee' = fn
            /\ pc' = fn
            /\ UNCHANGED response
       ELSE /\ Respond(400, "Unknown strategy")
            /\ UNCHANGED callee
    /\ UNCHANGED <<env, method, data, inits, client, order_data, submitted,
                   completed, exc, raised_by>>

\* return ('Order submitted successfully.', 200)
ReturnOk ==
    /\ pc = "return"
    /\ Respond(200, "Order submitted successfully.")
    /\ UNCHANGED <<env, method, data, inits, client, callee, order_data, submitted,
                   completed, exc, raised_by>>

\* the status and body prefix of handler's except clauses for an exception class
ExceptResponse(cls) ==
    IF cls \in {"ValueError", "TypeError"}
    THEN [status |-> 400, body |-> "Invalid parameters"]
    ELSE [status |-> 500, body |-> "Execution error"]

\* mutant of HandleException: a failed submission is tried once more
HandleException_Retry ==
    /\ pc = "except"
    /\ IF raised_by = "submit_order" /\ Len(submitted) < 2
       THEN pc' = "submit" /\ UNCHANGED response
       ELSE response' = ExceptResponse(exc) /\ pc' = "done"
    /\ UNCHANGED <<env, method, data, inits, client, callee, order_data, submitted,
                   completed, exc, raised_by>>

\* except (ValueError, TypeError): 400 ...  except Exception: 500 ...
HandleException ==
    /\ pc = "except"
    /\ response' = ExceptResponse(exc)
    /\ pc' = "done"
    /\ UNCHANGED <<env, method, data, inits, client, callee, order_data, submitted,
                   completed, exc, raised_by>>

\* the next invocation of the function, in the same process environment
NewRequest ==
    /\ pc = "done"
    /\ \E m \in Methods : Fresh(m)
    /\ UNCHANGED env

Next ==
    \/ CheckMethod
    \/ GetJson
    \/ Authenticate
    \/ CheckCredentials
    \/ InitializeClient
    \/ Route
    \/ trade_bull_call_spread
    \/ trade_bear_call_spread
    \/ trade_iron_condor
    \/ bull_call_spread_submit
    \/ bear_call_spread_submit
    \/ iron_condor_submit
    \/ ReturnOk
    \/ HandleException
    \/ NewRequest

Spec == Init /\ [][Next]_vars


\* ------------------------------------------------------------ properties
Done == pc = "done"
KnownStrategies == {"bull_call_spread", "bear_call_spread", "iron_condor"}

\* the request passed the secret check of handler
Authenticated ==
    /\ method = "POST"
    /\ data.kind = "object"
    /\ env.WEBHOOK_SECRET_KEY \notin {NoVal, ""}
    /\ data.secret_key = env.WEBHOOK_SECRET_KEY

NothingSent == inits = 0 /\ client = NoVal /\ submitted = <<>> /\ completed = 0

\* the client is initialized and submit_order is called only for an
\* authenticated request
OnlyIfAuthenticated == (inits > 0 \/ submitted # <<>>) => Authenticated

\* a non-POST request ends in 405 with nothing initialized or submitted
NonPostIs405 ==
    (Done /\ method # "POST") => (response.status = 405 /\ NothingSent)

\* C1 as stated: the client is initialized and submit_order is called only if
\* the request is a POST, WEBHOOK_SECRET_KEY is non-empty and the payload's
\* secret_key equals it; a non-POST request ends in 405, and a (POST) request
\* with a missing or wrong secret, or with no secret configured, ends in 403,
\* both with no client initialization and no order submission.
C1_AsStated ==
    /\ OnlyIfAuthenticated
    /\ NonPostIs405
    /\ (Done /\ method = "POST" /\ ~Authenticated)
          => (response.status = 403 /\ NothingSent)

\* C1 amended: as C1, where the 403 is for a POST request whose body parsed:
\* to anything when no secret is configured, to an object with a missing or
\* wrong secret_key otherwise.  A body that fails to parse ends in 400, and a
\* body that parses to a non-object while a secret is configured makes
\* handler raise AttributeError; neither initializes a client or submits.
C1_Amended ==
    /\ OnlyIfAuthenticated
    /\ NonPostIs405
    /\ (Done /\ method = "POST" /\ ~Authenticated) =>
          /\ NothingSent
          /\ data.kind = "none" => response.status = 400
          /\ (data.kind # "none" /\ env.WEBHOOK_SECRET_KEY \in {NoVal, ""})
                => response.status = 403
          /\ (data.kind = "object" /\ env.WEBHOOK_SECRET_KEY \notin {NoVal, ""})
                => response.status = 403
          /\ (data.kind = "nonobject" /\ env.WEBHOOK_SECRET_KEY \notin {NoVal, ""})
                => (exc = "AttributeError" /\ raised_by = "handler")

\* a POST request with a wrong secret_key was answered 403
C1_Witness ==
    /\ Done
    /\ method = "POST"
    /\ data.kind = "object"
    /\ data.secret_key = "wrong"
    /\ env.WEBHOOK_SECRET_KEY = "s3cret"
    /\ response.status = 403
    /\ NothingSent

\* C2: handler returns ('Order submitted successfully.', 200) if and only if
\* exactly one submit_order call was made during the request and it returned
\* without raising; every other outcome (405, 400, 403, 500) means that no
\* submit_order call completed.
C2_SuccessIffSubmitted ==
    Done =>
       /\ response.status \in {200, 405, 400, 403, 500}
       /\ (response = [status |-> 200, body |-> "Order submitted successfully."])
             <=> (Len(submitted) = 1 /\ completed = 1)
       /\ response.status # 200 => completed = 0

\* a request was answered 200 after its one submit_order call returned
C2_Witness ==
    /\ Done
    /\ response.status = 200
    /\ Len(submitted) = 1
    /\ completed = 1

\* C3: during one request submit_order is called at most once; when the call
\* raises, the next step of the request is handler's error response (400 or
\* 500) with no further submit_order call, and after that response only the
\* next request follows.
C3_AtMostOneSubmit ==
    [][ /\ Len(submitted') <= 1
        /\ (raised_by = "submit_order" /\ ~Done) =>
              /\ pc' = "done"
              /\ response'.status \in {400, 500}
              /\ submitted' = submitted
        /\ (raised_by = "submit_order" /\ Done) =>
              (pc' = "method" /\ submitted' = <<>>) ]_vars

\* a request whose submit_order call raised APIError was answered 500
C3_Witness ==
    /\ Done
    /\ raised_by = "submit_order"
    /\ exc = "APIError"
    /\ Len(submitted) = 1
    /\ completed = 0
    /\ response.status = 500

\* the order the translator named by the payload's strategy builds from params
ExpectedOrder(d) ==
    LET p == d.params IN
    CASE d.strategy = "bull_call_spread" ->
           BullCallSpreadOrder(p["underlying_symbol"], p["expiration_date"],
               p["long_strike"], p["short_strike"], p["quantity"], "day")
      [] d.strategy = "bear_call_spread" ->
           BearCallSpreadOrder(p["underlying_symbol"], p["expiration_date"],
               p["short_strike"], p["long_strike"], p["quantity"], "day")
      [] d.strategy = "iron_condor" ->
           IronCondorOrder(p["underlying_symbol"], p["expiration_date"],
               p["long_put_strike"], p["short_put_strike"],
               p["short_call_strike"], p["long_call_strike"], p["quantity"], "day")

\* every submitted order is the one built by the translator named by the
\* payload's strategy
SubmittedByNamedTranslator ==
    \A i \in 1..Len(submitted) :
       /\ data.strategy \in KnownStrategies
       /\ callee = data.strategy
       /\ submitted[i] = ExpectedOrder(data)

UnknownStrategyAnswer ==
    /\ response = [status |-> 400, body |-> "Unknown strategy"]
    /\ submitted = <<>>

\* C4 as stated: for an authenticated request the submitted order is built by
\* the translator matching the payload's strategy name; for any other name,
\* or none, handler returns ('Unknown strategy', 400) and submits nothing.
C4_AsStated ==
    /\ SubmittedByNamedTranslator
    /\ (Done /\ Authenticated /\ data.strategy \notin KnownStrategies)
          => UnknownStrategyAnswer

\* C4 amended: the same for an authenticated request for which the brokerage
\* client was initialized (credentials set, initialize_alpaca_client returned);
\* without a client the request ends in 500 whatever the strategy name.
C4_Amended ==
    /\ SubmittedByNamedTranslator
    /\ (Done /\ Authenticated /\ data.strategy \notin KnownStrategies) =>
          /\ client # NoVal => UnknownStrategyAnswer
          /\ client = NoVal => (response.status = 500 /\ submitted = <<>>)

\* an authenticated request naming no known strategy was answered
\* ('Unknown strategy', 400) after the client was initialized
C4_Witness ==
    /\ Done
    /\ Authenticated
    /\ client # NoVal
    /\ data.strategy = "straddle"
    /\ UnknownStrategyAnswer

\* the strike parameters of the payload are in the order the called
\* translator requires
ParamsStrictlyOrdered ==
    LET p == data.params IN
    IF callee = "bull_call_spread" THEN p["long_strike"] < p["short_strike"]
    ELSE IF callee = "bear_call_spread" THEN p["short_strike"] < p["long_strike"]
    ELSE /\ p["long_put_strike"] < p["short_put_strike"]
         /\ p["short_put_strike"] < p["short_call_strike"]
         /\ p["short_call_strike"] < p["long_call_strike"]

\* the payload's params bind to the called translator's parameters
ParamsBind ==
    /\ data.params_kind = "mapping"
    /\ DOMAIN data.params =
          (IF callee = "iron_condor" THEN CondorKeys ELSE VerticalKeys)

\* C5: no translator submits an order for strike parameters that are not in
\* strict order (bull: long < short; bear: short < long; condor: long_put <
\* short_put < short_call < long_call; equal strikes fail); when they are
\* not, the translator raises ValueError before any submit_order call and
\* handler answers 400.
C5_StrikeOrderRequired ==
    /\ submitted # <<>> => (ParamsBind /\ ParamsStrictlyOrdered)
    /\ (callee # NoVal /\ pc \in {"except", "done"} /\ ParamsBind
          /\ ~ParamsStrictlyOrdered) =>
          /\ exc = "ValueError"
          /\ raised_by = "trade_" \o callee
          /\ submitted = <<>>
          /\ Done => response = [status |-> 400, body |-> "Invalid parameters"]

\* a bull call spread with equal strikes was answered 400 with no submission
C5_Witness ==
    /\ Done
    /\ callee = "bull_call_spread"
    /\ ParamsBind
    /\ data.params["long_strike"] = data.params["short_strike"]
    /\ exc = "ValueError"
    /\ submitted = <<>>
    /\ response.status = 400


\* ---- reading an OCC symbol back: root (6), expiration (6), type (1), strike
DigitValue(c) == (CHOOSE i \in 1..Len(DigitChars) : DigitChars[i] = c) - 1

RECURSIVE DigitsToNat(_)
DigitsToNat(ds) ==
    IF ds = <<>> THEN 0
    ELSE 10 * DigitsToNat(SubSeq(ds, 1, Len(ds) - 1)) + DigitValue(ds[Len(ds)])

SymRoot(sym) == SubSeq(sym, 1, RootWidth)
SymExpiration(sym) == SubSeq(sym, RootWidth + 1, RootWidth + 6)
SymType(sym) == sym[RootWidth + 7]
\* the strike of the contract, in thousandths of a dollar
SymStrike(sym) == DigitsToNat(SubSeq(sym, RootWidth + 8, Len(sym)))

\* a multi-leg limit order of n legs, every leg of the order's quantity, on
\* one underlying and one expiration
MultiLegLimit(o, n) ==
    /\ o.order_class = "mleg"
    /\ o.type = "limit"
    /\ Len(o.legs) = n
    /\ \A i \in 1..n :
          /\ o.legs[i].qty = o.qty
          /\ SymRoot(o.legs[i].symbol) = SymRoot(o.legs[1].symbol)
          /\ SymExpiration(o.legs[i].symbol) = SymExpiration(o.legs[1].symbol)

\* the legs of a submitted vertical call spread, lower buys or sells as told
VerticalCallSpread(o, side, lower_side, higher_side) ==
    /\ MultiLegLimit(o, 2)
    /\ o.side = side
    /\ \A i \in 1..2 : SymType(o.legs[i].symbol) = "C"
    /\ \E lo, hi \in 1..2 :
          /\ SymStrike(o.legs[lo].symbol) < SymStrike(o.legs[hi].symbol)
          /\ o.legs[lo].side = lower_side
          /\ o.legs[hi].side = higher_side

\* C6: every order submitted by a vertical call spread is a multi-leg limit
\* order of exactly two call legs on the same underlying and expiration, each
\* of the order's quantity; the bull call spread has side BUY, buys the call at
\* the strictly lower strike and sells the call at the strictly higher strike;
\* the bear call spread has side SELL, sells the lower and buys the higher.
C6_VerticalSpreadLegs ==
    \A i \in 1..Len(submitted) :
       /\ callee = "bull_call_spread"
             => VerticalCallSpread(submitted[i], "buy", "buy", "sell")
       /\ callee = "bear_call_spread"
             => VerticalCallSpread(submitted[i], "sell", "sell", "buy")

\* C7: every order submitted by trade_iron_condor is a multi-leg limit order
\* with side SELL and exactly four legs of the order's quantity, in this
\* order: buy put, sell put, sell call, buy call, with strikes strictly
\* ascending across the four legs.
C7_IronCondorLegs ==
    \A i \in 1..Len(submitted) :
       callee = "iron_condor" =>
          LET o == submitted[i] IN
          /\ MultiLegLimit(o, 4)
          /\ o.side = "sell"
          /\ <<o.legs[1].side, o.legs[2].side, o.legs[3].side, o.legs[4].side>>
                = <<"buy", "sell", "sell", "buy">>
          /\ <<SymType(o.legs[1].symbol), SymType(o.legs[2].symbol),
               SymType(o.legs[3].symbol), SymType(o.legs[4].symbol)>>
                = <<"P", "P", "C", "C">>
          /\ \A j \in 1..3 :
                SymStrike(o.legs[j].symbol) < SymStrike(o.legs[j + 1].symbol)

\* C8: handler answers 400 'Invalid parameters' only for bad parameters of the
\* payload, and 500 'Execution error' whenever the submit_order call fails: a
\* failure raised by the brokerage call is never reported as 400.
C8_SubmitFailureIs500 ==
    Done =>
       /\ response.body = "Invalid parameters" =>
             raised_by \in {"call", "trade_bull_call_spread",
                            "trade_bear_call_spread", "trade_iron_condor"}
       /\ raised_by = "submit_order" =>
             response = [status |-> 500, body |-> "Execution error"]

====
